---- MODULE Spec2Model ----
(***************************************************************************)
(* Relational algebra on in-memory tables (databases/tables.py and         *)
(* databases/operations.py).  A Table is a Python list of dicts: here a    *)
(* sequence of rows, each row a function from column names (strings) to    *)
(* scalar values.  An operator either returns a table or raises; its       *)
(* outcome is a record [err, table].  The caller holds two operand tables, *)
(* calls one operator at a time and may pass a returned table on as an     *)
(* operand of a later call.                                                *)
(***************************************************************************)
EXTENDS Integers, Sequences, FiniteSets, TLC

VARIABLES left, right, op, args, out, calls, base

vars == <<left, right, op, args, out, calls, base>>

----------------------------------------------------------------------------
(* Bounds of the model *)

\* rows held by the caller's two initial tables together
MaxRows == 3

\* returned tables the caller passes on as an operand of a later call
MaxCalls == 1

\* Python's None, a value no initial row holds
None == 0

\* the scalar values of the initial rows
Vals == {1, 2}

LeftCols == {"a", "b"}

RightSchemas == {{"a", "b"}, {"a", "c"}}

AllCols == {"a", "b", "c"}

----------------------------------------------------------------------------
(* Outcomes *)

Ok(table) == [err |-> "none", table |-> table]

Raise(e) == [err |-> e, table |-> <<>>]

Range(s) == {s[i] : i \in 1..Len(s)}

RECURSIVE Enum(_)
Enum(S) ==
    IF S = {} THEN <<>>
    ELSE LET c == CHOOSE c \in S : TRUE IN <<c>> \o Enum(S \ {c})

\* orders in which Python may iterate a set of strings: any element may be
\* the one visited last
Orders(S) == IF S = {} THEN {<<>>} ELSE {Append(Enum(S \ {c}), c) : c \in S}

----------------------------------------------------------------------------
(* databases/tables.py *)

\* set.union(*[...]) over the rows' key sets; with no rows it is set.union()
\* called without arguments, which raises TypeError
_columns_in_table_raises(table) == table = <<>>

_columns_in_table(table) == UNION {DOMAIN table[i] : i \in 1..Len(table)}

_prefix_row(row, prefix) ==
    LET key(c) == prefix \o "." \o c
    IN  [k \in {key(c) : c \in DOMAIN row} |->
            row[CHOOSE c \in DOMAIN row : key(c) = k]]

_prefix_columns(table, prefix) ==
    [i \in 1..Len(table) |-> _prefix_row(table[i], prefix)]

\* imported by operations.py from tables.py, which does not define it:
\* keeps the first occurrence of every row, in order
_remove_duplicates(table) ==
    LET acc[i \in 0..Len(table)] ==
            IF i = 0 THEN <<>>
            ELSE IF table[i] \in Range(acc[i - 1]) THEN acc[i - 1]
                 ELSE Append(acc[i - 1], table[i])
    IN  acc[Len(table)]

----------------------------------------------------------------------------
(* Caller-supplied callables.  A single-row predicate is                   *)
(*   [kind |-> "gt", col, val]   lambda x: x[col] > val                    *)
(*   [kind |-> "on_merged", cond, lcols, rcols]                            *)
(*                               a two-row condition applied to the        *)
(*                               unprefixed halves of a merged row         *)
(* and a two-row condition is                                              *)
(*   [lcol, rcol]                lambda x, y: x[lcol] == y[rcol]           *)
(***************************************************************************)

Gt(col, val) == [kind |-> "gt", col |-> col, val |-> val]

EqCond(lcol, rcol) == [lcol |-> lcol, rcol |-> rcol]

CallCond(cond, x, y) == x[cond.lcol] = y[cond.rcol]

\* the part of a merged row that carries the given prefix, prefix removed:
\* how an adapted condition recovers the two rows it was written for
Unprefixed(row, prefix, cols) ==
    LET key(c) == prefix \o "." \o c
    IN  [c \in {c \in cols : key(c) \in DOMAIN row} |-> row[key(c)]]

OnMerged(cond, lcols, rcols) ==
    [kind |-> "on_merged", cond |-> cond, lcols |-> lcols, rcols |-> rcols]

CallPred(pred, x) ==
    IF pred.kind = "gt" THEN x[pred.col] > pred.val
    ELSE CallCond(pred.cond, Unprefixed(x, "left", pred.lcols),
                             Unprefixed(x, "right", pred.rcols))

\* the callables are total on the rows they are called with
PredDefined(pred, x) == pred.col \in DOMAIN x /\ x[pred.col] # None

CondDefined(cond, x, y) == cond.lcol \in DOMAIN x /\ cond.rcol \in DOMAIN y

----------------------------------------------------------------------------
(* databases/operations.py *)

Filter(table, keep) ==
    LET acc[i \in 0..Len(table)] ==
            IF i = 0 THEN <<>>
            ELSE IF i \in keep THEN Append(acc[i - 1], table[i])
                 ELSE acc[i - 1]
    IN  acc[Len(table)]

select(table, conditions) ==
    LET table_out == Filter(table,
            {i \in 1..Len(table) :
                \A c \in 1..Len(conditions) : CallPred(conditions[c], table[i])})
    IN  Ok(_remove_duplicates(table_out))

\* project as it would be if the comprehension copied every column of the record
project_every_column(table, columns) ==
    IF \E i \in 1..Len(table) : ~(Range(columns) \subseteq DOMAIN table[i])
    THEN Raise("KeyError")
    ELSE Ok(_remove_duplicates(table))

project(table, columns) ==
    IF \E i \in 1..Len(table) : ~(Range(columns) \subseteq DOMAIN table[i])
    THEN Raise("KeyError")
    ELSE Ok(_remove_duplicates(
            [i \in 1..Len(table) |-> [c \in Range(columns) |-> table[i][c]]]))

\* columns.get(old_name, old_name)
Get(columns, old_name) ==
    IF old_name \in DOMAIN columns THEN columns[old_name] ELSE old_name

\* the dict comprehension visits table_columns in the set's iteration order
\* (order); of the old names that map to one new name the last visited wins
RenameRow(record, columns, order) ==
    [k \in {Get(columns, order[j]) : j \in 1..Len(order)} |->
        LET last == CHOOSE j \in 1..Len(order) :
                        /\ Get(columns, order[j]) = k
                        /\ \A h \in (j + 1)..Len(order) : Get(columns, order[h]) # k
        IN  record[order[last]]]

rename(table, columns, order) ==
    IF _columns_in_table_raises(table) THEN Raise("TypeError")
    ELSE IF \E i \in 1..Len(table) : DOMAIN table[i] # _columns_in_table(table)
    THEN Raise("KeyError")
    ELSE Ok(_remove_duplicates(
            [i \in 1..Len(table) |-> RenameRow(table[i], columns, order)]))

\* {**row_l, **row_r}
Merge(row_l, row_r) ==
    [k \in DOMAIN row_l \cup DOMAIN row_r |->
        IF k \in DOMAIN row_r THEN row_r[k] ELSE row_l[k]]

\* itertools.product(l, r): the pairs, the right index running fastest
Product(l, r) ==
    [k \in 1..(Len(l) * Len(r)) |->
        <<l[((k - 1) \div Len(r)) + 1], r[((k - 1) % Len(r)) + 1]>>]

cross_product(l, r) ==
    LET pairs == Product(_prefix_columns(l, "left"), _prefix_columns(r, "right"))
    IN  Ok(_remove_duplicates(
            [k \in 1..Len(pairs) |-> Merge(pairs[k][1], pairs[k][2])]))

\* theta_join as it would be with any() in place of all()
theta_join_any(l, r, conditions) ==
    LET pairs == Product(l, r)
        kept  == Filter(pairs,
                    {k \in 1..Len(pairs) :
                        \E c \in 1..Len(conditions) :
                            CallCond(conditions[c], pairs[k][1], pairs[k][2])})
    IN  Ok(_remove_duplicates(
            [k \in 1..Len(kept) |->
                Merge(_prefix_row(kept[k][1], "left"),
                      _prefix_row(kept[k][2], "right"))]))

theta_join(l, r, conditions) ==
    LET pairs == Product(l, r)
        kept  == Filter(pairs,
                    {k \in 1..Len(pairs) :
                        \A c \in 1..Len(conditions) :
                            CallCond(conditions[c], pairs[k][1], pairs[k][2])})
    IN  Ok(_remove_duplicates(
            [k \in 1..Len(kept) |->
                Merge(_prefix_row(kept[k][1], "left"),
                      _prefix_row(kept[k][2], "right"))]))

\* [lambda x, y: x[col] == y[col] for col in common_cols]: every lambda reads
\* col when it is called, after the comprehension has finished, so each of
\* them compares the column visited last (order is the set's iteration order)
NaturalConditions(order) ==
    [i \in 1..Len(order) |-> EqCond(order[Len(order)], order[Len(order)])]

natural_join(l, r, order) ==
    IF _columns_in_table_raises(l) \/ _columns_in_table_raises(r)
    THEN Raise("TypeError")
    ELSE Ok(_remove_duplicates(theta_join(l, r, NaturalConditions(order)).table))

\* _pad_table as it would be if the padding row were left out of the merge
_pad_table_unpadded(table, with_cols) == _remove_duplicates(table)

_pad_table(table, with_cols) ==
    LET padding_row == [c \in with_cols |-> None]
    IN  _remove_duplicates(
            [i \in 1..Len(table) |-> Merge(table[i], padding_row)])

\* union as it would be with the two column differences exchanged
union_padding_exchanged(l, r) ==
    IF _columns_in_table_raises(l) \/ _columns_in_table_raises(r)
    THEN Raise("TypeError")
    ELSE LET left_cols  == _columns_in_table(l)
             right_cols == _columns_in_table(r)
         IN  Ok(_remove_duplicates(
                _pad_table(l, left_cols \ right_cols)
                    \o _pad_table(r, right_cols \ left_cols)))

union(l, r) ==
    IF _columns_in_table_raises(l) \/ _columns_in_table_raises(r)
    THEN Raise("TypeError")
    ELSE LET left_cols  == _columns_in_table(l)
             right_cols == _columns_in_table(r)
         IN  Ok(_remove_duplicates(
                _pad_table(l, right_cols \ left_cols)
                    \o _pad_table(r, left_cols \ right_cols)))

\* difference as it would be with "in" in place of "not in"
difference_in(l, r) ==
    Ok(_remove_duplicates(
        Filter(l, {i \in 1..Len(l) : l[i] \in Range(r)})))

difference(l, r) ==
    Ok(_remove_duplicates(
        Filter(l, {i \in 1..Len(l) : l[i] \notin Range(r)})))

\* intersection as it would be with the inner operands exchanged
intersection_inner_exchanged(l, r) ==
    Ok(_remove_duplicates(difference(l, difference(r, l).table).table))

intersection(l, r) ==
    Ok(_remove_duplicates(difference(l, difference(l, r).table).table))

----------------------------------------------------------------------------
(* The caller *)

Rows(cols) == [cols -> Vals]

Tables(cols, n) == UNION {[1..k -> Rows(cols)] : k \in 0..n}

Cols(table) == UNION {DOMAIN table[i] : i \in 1..Len(table)}

Uniform(table) == \A i, j \in 1..Len(table) : DOMAIN table[i] = DOMAIN table[j]

DupFree(table) == \A i, j \in 1..Len(table) : table[i] = table[j] => i = j

NoArgs == [conditions |-> <<>>, columns |-> <<>>, mapping |-> <<>>, order |-> <<>>]

\* lists of at most two callables
Lists(S) == {<<>>} \cup {<<p>> : p \in S} \cup {<<p, q>> : p, q \in S}

Preds == {Gt(c, 1) : c \in LeftCols}

Conds == {EqCond("a", "a"), EqCond("b", "b"), EqCond("b", "c")}

ColumnLists == Lists(AllCols)

Mappings == UNION {[S -> {"b", "d"}] : S \in SUBSET LeftCols}

Start ==
    /\ op = "none"
    /\ args = NoArgs
    /\ out = Ok(<<>>)
    /\ calls = 0
    /\ base = [left |-> left, right |-> right]

\* two tables of uniform schema, duplicates allowed
Init ==
    /\ left \in Tables(LeftCols, MaxRows)
    /\ \E cols \in RightSchemas : right \in Tables(cols, MaxRows)
    /\ Len(left) + Len(right) <= MaxRows
    /\ Start

\* two duplicate-free tables of uniform schema, of two rows together
InitChain ==
    /\ left \in Tables(LeftCols, 2)
    /\ \E cols \in RightSchemas : right \in Tables(cols, 2)
    /\ Len(left) + Len(right) <= 2
    /\ DupFree(left)
    /\ DupFree(right)
    /\ Start

Returned(name, a, result) ==
    /\ op = "none"
    /\ op' = name
    /\ args' = a
    /\ out' = result
    /\ UNCHANGED <<left, right, calls, base>>

Select ==
    \E conditions \in Lists(Preds) :
        /\ \A c \in 1..Len(conditions), i \in 1..Len(left) :
                PredDefined(conditions[c], left[i])
        /\ Returned("select", [NoArgs EXCEPT !.conditions = conditions],
                    select(left, conditions))

Project ==
    \E columns \in ColumnLists :
        Returned("project", [NoArgs EXCEPT !.columns = columns],
                 project(left, columns))

Rename ==
    \E columns \in Mappings, order \in Orders(Cols(left)) :
        Returned("rename", [NoArgs EXCEPT !.mapping = columns, !.order = order],
                 rename(left, columns, order))

CrossProduct == Returned("cross_product", NoArgs, cross_product(left, right))

ThetaJoin ==
    \E conditions \in Lists(Conds) :
        /\ \A c \in 1..Len(conditions), i \in 1..Len(left), j \in 1..Len(right) :
                CondDefined(conditions[c], left[i], right[j])
        /\ Returned("theta_join", [NoArgs EXCEPT !.conditions = conditions],
                    theta_join(left, right, conditions))

NaturalJoin ==
    \E order \in Orders(Cols(left) \cap Cols(right)) :
        Returned("natural_join", [NoArgs EXCEPT !.order = order],
                 natural_join(left, right, order))

Union == Returned("union", NoArgs, union(left, right))

Difference == Returned("difference", NoArgs, difference(left, right))

Intersection == Returned("intersection", NoArgs, intersection(left, right))

\* the caller passes the returned table on as an operand of its next call
Pass(l, r) ==
    /\ op # "none"
    /\ out.err = "none"
    /\ calls < MaxCalls
    /\ left' = l
    /\ right' = r
    /\ op' = "none"
    /\ args' = NoArgs
    /\ out' = Ok(<<>>)
    /\ calls' = calls + 1
    /\ UNCHANGED base

PassLeft == Pass(out.table, right)

PassRight == Pass(left, out.table)

\* one call of an operator on the caller's tables
Next ==
    \/ Select
    \/ Project
    \/ Rename
    \/ CrossProduct
    \/ ThetaJoin
    \/ NaturalJoin
    \/ Union
    \/ Difference
    \/ Intersection

Spec == Init /\ [][Next]_vars

\* sequences of calls, each on the caller's tables or on returned tables
NextChain ==
    \/ Select
    \/ Project
    \/ Rename
    \/ CrossProduct
    \/ ThetaJoin
    \/ NaturalJoin
    \/ Union
    \/ Difference
    \/ Intersection
    \/ PassLeft
    \/ PassRight

SpecChain == InitChain /\ [][NextChain]_vars

----------------------------------------------------------------------------
(* Properties *)

\* every row of both tables has one and the same column set
SharedSchema(l, r) ==
    \A x, y \in Range(l) \cup Range(r) : DOMAIN x = DOMAIN y

MergedRow(row_l, row_r) ==
    Merge(_prefix_row(row_l, "left"), _prefix_row(row_r, "right"))

\* the row widened to cols: its own values, None on the columns it lacks
Widened(row, cols) ==
    [c \in cols |-> IF c \in DOMAIN row THEN row[c] ELSE None]

Restricted(row, cols) == [c \in cols |-> row[c]]

\* C1: natural_join(L, R) holds the merged row of a pair (l, r) if and only
\* if l and r agree on every column common to both schemas.
C1_NaturalJoinAgreesOnEveryCommonColumn ==
    (op = "natural_join" /\ out.err = "none") =>
        \A i \in 1..Len(left), j \in 1..Len(right) :
            (MergedRow(left[i], right[j]) \in Range(out.table))
                <=> (\A c \in Cols(left) \cap Cols(right) :
                        left[i][c] = right[j][c])

\* C2: for tables L and R of one schema, union(difference(L, R),
\* intersection(L, R)) returns a table with exactly the rows of L.
C2_UnionOfDifferenceAndIntersectionIsLeft ==
    ( /\ op = "union"
      /\ SharedSchema(base.left, base.right)
      /\ left = difference(base.left, base.right).table
      /\ right = intersection(base.left, base.right).table )
    => (out.err = "none" /\ Range(out.table) = Range(base.left))

\* C3: theta_join(L, R, C) has the rows of select(cross_product(L, R), C'),
\* each c' applying c to the unprefixed left and right parts of the merged
\* row; with C empty it has the rows of cross_product(L, R).
C3_ThetaJoinIsFilteredCrossProduct ==
    op = "theta_join" =>
        LET adapted == [c \in 1..Len(args.conditions) |->
                            OnMerged(args.conditions[c], Cols(left), Cols(right))]
            crossed == cross_product(left, right)
        IN  /\ out.err = "none"
            /\ crossed.err = "none"
            /\ Range(out.table) = Range(select(crossed.table, adapted).table)
            /\ args.conditions = <<>> => Range(out.table) = Range(crossed.table)

C3_Witness ==
    /\ op = "theta_join"
    /\ Len(args.conditions) = 2
    /\ out.table # <<>>
    /\ Len(out.table) < Len(left) * Len(right)

\* C4: for non-empty L and R every row of union(L, R) has the columns of L
\* and of R; the rows are those of L and of R, each with its own values and
\* None on the columns it lacks.
C4_UnionWidensToBothSchemas ==
    (op = "union" /\ left # <<>> /\ right # <<>>) =>
        LET cols == Cols(left) \cup Cols(right)
        IN  /\ out.err = "none"
            /\ \A i \in 1..Len(out.table) : DOMAIN out.table[i] = cols
            /\ Range(out.table) =
                    {Widened(row, cols) : row \in Range(left) \cup Range(right)}

C4_Witness ==
    /\ op = "union"
    /\ left # <<>>
    /\ right # <<>>
    /\ Cols(left) # Cols(right)
    /\ Len(out.table) = 2

SchemaMismatch ==
    /\ op \in {"difference", "intersection"}
    /\ left # <<>>
    /\ right # <<>>
    /\ Cols(left) # Cols(right)

\* C5 as claimed: on tables of different column sets difference and
\* intersection end with an error and return no table.
C5_DifferenceRaisesOnSchemaMismatch == SchemaMismatch => out.err # "none"

\* C5 as amended: on tables of different column sets difference raises
\* nothing and returns the rows of L, and intersection returns the empty table.
C5_DifferenceOnSchemaMismatchReturnsLeft ==
    SchemaMismatch =>
        /\ out.err = "none"
        /\ op = "difference" => Range(out.table) = Range(left)
        /\ op = "intersection" => out.table = <<>>

C5_Witness == SchemaMismatch /\ op = "difference" /\ Len(out.table) = 2

\* C6: for tables of one schema intersection(L, R) holds exactly the rows
\* that occur in both, and difference(L, R) holds no row of R.
C6_IntersectionAndDifference ==
    SharedSchema(left, right) =>
        /\ op = "intersection" =>
                out.err = "none" /\ Range(out.table) = Range(left) \cap Range(right)
        /\ op = "difference" =>
                out.err = "none" /\ Range(out.table) \cap Range(right) = {}

C6_Witness ==
    /\ op = "intersection"
    /\ SharedSchema(left, right)
    /\ out.table # <<>>
    /\ Cardinality(Range(out.table)) < Cardinality(Range(left))

\* C7: for columns of the table's schema project(T, cols) holds the distinct
\* restrictions of T's rows to cols, each once.
C7_ProjectIsDistinctRestrictions ==
    (op = "project" /\ \A i \in 1..Len(left) : Range(args.columns) \subseteq DOMAIN left[i]) =>
        LET cols == Range(args.columns)
            restrictions == {Restricted(row, cols) : row \in Range(left)}
        IN  /\ out.err = "none"
            /\ \A i \in 1..Len(out.table) : DOMAIN out.table[i] = cols
            /\ Range(out.table) = restrictions
            /\ Len(out.table) = Cardinality(restrictions)

C7_Witness ==
    /\ op = "project"
    /\ out.err = "none"
    /\ args.columns # <<>>
    /\ Len(out.table) < Cardinality(Range(left))

C9_TotalOnEmptyTables ==
    /\ (op = "rename" /\ left = <<>>) => out = Ok(<<>>)
    /\ (op = "natural_join" /\ (left = <<>> \/ right = <<>>)) => out = Ok(<<>>)
    /\ (op = "union" /\ right = <<>>) =>
            out.err = "none" /\ Range(out.table) = Range(left)
    /\ (op = "union" /\ left = <<>>) =>
            out.err = "none" /\ Range(out.table) = Range(right)

\* C10: rename(T, {a: b}) gives every row a column b holding the source
\* row's value of a and no column a, the other columns unchanged, whatever
\* the order in which the column set is iterated.
C10_RenameOntoExistingColumnOverwrites ==
    ( /\ op = "rename"
      /\ left # <<>>
      /\ {"a", "b"} \subseteq Cols(left)
      /\ args.mapping = [a |-> "b"] )
    => /\ out.err = "none"
       /\ Range(out.table) =
            {[c \in DOMAIN row \ {"a"} |-> IF c = "b" THEN row["a"] ELSE row[c]] :
                row \in Range(left)}

====
